---------------------------- MODULE Spec2Model ----------------------------
(***************************************************************************)
(* ppmdiff: decoding of two P3 (plain text) pixmaps and generation of the  *)
(* digital and analog difference images.                                   *)
(*                                                                         *)
(* Texts are sequences of one-character strings.  A Python int n that may  *)
(* also be None is carried as <<n>>, None as <<>>.  A call's outcome is a  *)
(* record [raised, value]: raised = "" for a normal return of value,       *)
(* otherwise the name of the exception raised, value being its message.    *)
(***************************************************************************)
EXTENDS Integers, Sequences, FiniteSets, TLC

(***************************************************************************)
(* Bounds of the model.                                                    *)
(***************************************************************************)
MaxDim == 2
MaxPixels == 2
MaxTokens == 9

(***************************************************************************)
(* Python built-ins used by the program.                                   *)
(***************************************************************************)
None == <<>>

Min(a, b) == IF a <= b THEN a ELSE b

\* a // b, the floor of a / b; b = 0 raises ZeroDivisionError at the callers
PyFloorDiv(a, b) == IF b > 0 THEN a \div b ELSE (0 - a) \div (0 - b)

\* a % b, which has the sign of b
PyMod(a, b) == a - b * PyFloorDiv(a, b)

\* abs(n)
abs(n) == IF n < 0 THEN 0 - n ELSE n

Whitespace == {" ", "\n", "\t"}

Digits == <<"0", "1", "2", "3", "4", "5", "6", "7", "8", "9">>

IsDigit(c) == \E i \in 1..Len(Digits) : Digits[i] = c

DigitVal(c) == (CHOOSE i \in 1..Len(Digits) : Digits[i] = c) - 1

RECURSIVE lstrip(_)
lstrip(s) == IF s # <<>> /\ Head(s) \in Whitespace THEN lstrip(Tail(s)) ELSE s

RECURSIVE rstrip(_)
rstrip(s) ==
    IF s # <<>> /\ s[Len(s)] \in Whitespace
    THEN rstrip(SubSeq(s, 1, Len(s) - 1))
    ELSE s

\* str.strip()
strip(s) == rstrip(lstrip(s))

RECURSIVE split_from(_, _, _)
split_from(s, cur, acc) ==
    IF s = <<>>
    THEN IF cur = <<>> THEN acc ELSE Append(acc, cur)
    ELSE IF Head(s) \in Whitespace
         THEN split_from(Tail(s), <<>>, IF cur = <<>> THEN acc ELSE Append(acc, cur))
         ELSE split_from(Tail(s), Append(cur, Head(s)), acc)

\* str.split() with no separator: the maximal runs of non-whitespace
split(s) == split_from(s, <<>>, <<>>)

\* the digits of a non-negative n
RECURSIVE str_nat(_)
str_nat(n) ==
    IF n < 10 THEN <<Digits[n + 1]>>
    ELSE Append(str_nat(n \div 10), Digits[(n % 10) + 1])

\* '{}'.format(n) of an int
str(n) == IF n < 0 THEN <<"-">> \o str_nat(0 - n) ELSE str_nat(n)

\* the text after an optional sign
Unsigned(s) == IF s # <<>> /\ Head(s) \in {"+", "-"} THEN Tail(s) ELSE s

\* what int() accepts after the sign: digits, single underscores between them
IsDigitString(s) ==
    /\ s # <<>>
    /\ IsDigit(s[1])
    /\ IsDigit(s[Len(s)])
    /\ \A i \in 1..Len(s) : IsDigit(s[i]) \/ s[i] = "_"
    /\ \A i \in 1..(Len(s) - 1) : ~(s[i] = "_" /\ s[i + 1] = "_")

RECURSIVE DigitsValue(_, _)
DigitsValue(s, acc) ==
    IF s = <<>> THEN acc
    ELSE IF Head(s) = "_" THEN DigitsValue(Tail(s), acc)
         ELSE DigitsValue(Tail(s), 10 * acc + DigitVal(Head(s)))

\* int(s) of a str: an outcome, ValueError when s is no integer literal
int(s) ==
    LET t == strip(s)
        u == Unsigned(t)
    IN  IF IsDigitString(u)
        THEN [raised |-> "",
              value |-> IF Head(t) = "-" THEN 0 - DigitsValue(u, 0)
                        ELSE DigitsValue(u, 0)]
        ELSE [raised |-> "ValueError", value |-> <<>>]

\* the position of the first newline of s, or Len(s) when it has none
LineEnd(s) ==
    IF \E i \in 1..Len(s) : s[i] = "\n"
    THEN CHOOSE i \in 1..Len(s) : s[i] = "\n" /\ \A j \in 1..(i - 1) : s[j] # "\n"
    ELSE Len(s)

\* infile.readline() at the start of text s: the line with its newline
readline(s) == SubSeq(s, 1, LineEnd(s))

\* the stream after one readline
AfterLine(s) == SubSeq(s, LineEnd(s) + 1, Len(s))

\* ''.join(infile.readlines()) once the three header lines are read
readlines(s) == AfterLine(AfterLine(AfterLine(s)))

(***************************************************************************)
(* data.py: the value types and the outcomes of a call.                    *)
(***************************************************************************)
Header(width, height, max_color) ==
    [width |-> width, height |-> height, max_color |-> max_color]

Pixel(red, green, blue) == [red |-> red, green |-> green, blue |-> blue]

Image(header, pixels) == [header |-> header, pixels |-> pixels]

Return(v) == [raised |-> "", value |-> v]

Raise(exception, msg) == [raised |-> exception, value |-> msg]

\* fmt.format(*args), kept as the template and its arguments
format(fmt, args) == [fmt |-> fmt, args |-> args]

(***************************************************************************)
(* utility.py: the decoder.                                                *)
(***************************************************************************)
MALFORMED_PIXEL == "invalid pixel at <row={}, col={}>"
PARTIAL_PIXEL == "partial pixel at <row={}, col={}>"
P3_ID == <<"P", "3">>

_convert_int(value, default) ==
    IF int(value).raised = "" THEN <<int(value).value>> ELSE default

\* a variant that takes the first two of two or more tokens
_convert_dimensions_at_least_2(dimension_str) ==
    LET dim_list == split(dimension_str)
    IN  IF Len(dim_list) >= 2
        THEN LET width == _convert_int(dim_list[1], None)
                 height == _convert_int(dim_list[2], None)
             IN  IF width # None /\ height # None
                 THEN Return(<<width[1], height[1]>>)
                 ELSE Raise("P3InvalidHeaderError", <<>>)
        ELSE Raise("P3InvalidHeaderError", <<>>)

_convert_dimensions(dimension_str) ==
    LET dim_list == split(dimension_str)
    IN  IF Len(dim_list) = 2
        THEN LET width == _convert_int(dim_list[1], None)
                 height == _convert_int(dim_list[2], None)
             IN  IF width # None /\ height # None
                 THEN Return(<<width[1], height[1]>>)
                 ELSE Raise("P3InvalidHeaderError", <<>>)
        ELSE Raise("P3InvalidHeaderError", <<>>)

_convert_color(color_str) ==
    LET max_color == _convert_int(color_str, None)
    IN  IF max_color = None
        THEN Raise("P3InvalidHeaderError", <<>>)
        ELSE Return(max_color[1])

_read_header(infile) ==
    LET first == strip(readline(infile))
        second == strip(readline(AfterLine(infile)))
        third == strip(readline(AfterLine(AfterLine(infile))))
    IN  IF first # P3_ID \/ second = <<>> \/ third = <<>>
        THEN Raise("P3InvalidHeaderError", <<>>)
        ELSE LET dims == _convert_dimensions(second)
                 max_color == _convert_color(third)
             IN  IF dims.raised # "" THEN dims
                 ELSE IF max_color.raised # "" THEN max_color
                 ELSE Return(Header(dims.value[1], dims.value[2], max_color.value))

\* a variant that reports the column before the row
_create_pixel_col_row(values, row, col) ==
    IF Len(values) < 3
    THEN Raise("PartialPixelError", format(PARTIAL_PIXEL, <<col, row>>))
    ELSE LET red == _convert_int(values[1], None)
             green == _convert_int(values[2], None)
             blue == _convert_int(values[3], None)
         IN  IF red = None \/ green = None \/ blue = None
             THEN Raise("MalformedPixelError", format(MALFORMED_PIXEL, <<col, row>>))
             ELSE Return(Pixel(red[1], green[1], blue[1]))

_create_pixel(values, row, col) ==
    IF Len(values) < 3
    THEN Raise("PartialPixelError", format(PARTIAL_PIXEL, <<row, col>>))
    ELSE LET red == _convert_int(values[1], None)
             green == _convert_int(values[2], None)
             blue == _convert_int(values[3], None)
         IN  IF red = None \/ green = None \/ blue = None
             THEN Raise("MalformedPixelError", format(MALFORMED_PIXEL, <<row, col>>))
             ELSE Return(Pixel(red[1], green[1], blue[1]))

_groups_of_3(values) ==
    [k \in 1..((Len(values) + 2) \div 3) |->
        SubSeq(values, 3 * (k - 1) + 1, Min(3 * k, Len(values)))]

\* the list comprehension of get_image from group idx on; the arguments
\* idx // header.width and idx % header.width are evaluated before the call
RECURSIVE create_pixels(_, _, _, _)
create_pixels(groups, idx, header, pixels) ==
    IF idx >= Len(groups) THEN Return(pixels)
    ELSE IF header.width = 0
         THEN Raise("ZeroDivisionError", <<>>)
         ELSE LET pixel == _create_pixel(groups[idx + 1],
                                        PyFloorDiv(idx, header.width),
                                        PyMod(idx, header.width))
              IN  IF pixel.raised # "" THEN pixel
                  ELSE create_pixels(groups, idx + 1, header,
                                     Append(pixels, pixel.value))

get_image(infile) ==
    LET header == _read_header(infile)
    IN  IF header.raised # "" THEN header
        ELSE LET contents == split(readlines(infile))
                 pixels == create_pixels(_groups_of_3(contents), 0, header.value, <<>>)
             IN  IF pixels.raised # "" THEN pixels
                 ELSE Return(Image(header.value, pixels.value))

(***************************************************************************)
(* ppmdiff.py: header comparison and difference generation.                *)
(***************************************************************************)
OUT_FILE_DIGITAL == "diffimage_digital.ppm"
OUT_FILE_ANALOG == "diffimage_analog.ppm"
NUM_ARGS == 3
COLUMN_MISMATCH == "widths differ"
ROW_MISMATCH == "heights differ"
MAX_COLOR_MISMATCH == "color max values differ"
NO_MISMATCH == "nothing differs"
INVALID_P3_FORMAT == "invalid P3 header format"
HEADER_MISMATCH == "Headers mismatch: {}"
USAGE == "usage: {} image1.ppm image2.ppm"
IO_ERROR == "{0}: {1}"
PIXELS_DIFFER == "pixels at <row={}, col={}> differ.  {} <-- --> {}"

check_args(argv_len) == argv_len = NUM_ARGS

\* a file on disk: untouched until it is opened, its printed lines since then
NewFile == [state |-> "untouched", lines |-> <<>>]

\* open(name, 'w'): the file is created or truncated
OpenedForWriting == [state |-> "open", lines |-> <<>>]

\* print(text, file=out); the newline print adds is implied by the line break
print(out, text) == [out EXCEPT !.lines = Append(@, text)]

\* leaving the with statement closes the file
close(out) == IF out.state = "open" THEN [out EXCEPT !.state = "closed"] ELSE out

write_header(out, h) ==
    print(print(print(out, <<"P", "3", "\n">>),
                str(h.width) \o <<" ">> \o str(h.height) \o <<"\n">>),
          str(h.max_color) \o <<"\n">>)

\* a variant without abs
pixel_diff_signed(p1, p2) ==
    Pixel(p1.red - p2.red, p1.green - p2.green, p1.blue - p2.blue)

pixel_diff(p1, p2) ==
    Pixel(abs(p1.red - p2.red), abs(p1.green - p2.green), abs(p1.blue - p2.blue))

\* a variant that looks at the heights first
header_match_error_height_first(h1, h2) ==
    IF h1.height # h2.height THEN ROW_MISMATCH
    ELSE IF h1.width # h2.width THEN COLUMN_MISMATCH
    ELSE IF h1.max_color # h2.max_color THEN MAX_COLOR_MISMATCH
    ELSE NO_MISMATCH

header_match_error(h1, h2) ==
    IF h1.width # h2.width THEN COLUMN_MISMATCH
    ELSE IF h1.height # h2.height THEN ROW_MISMATCH
    ELSE IF h1.max_color # h2.max_color THEN MAX_COLOR_MISMATCH
    ELSE NO_MISMATCH

\* '{} {} {} '.format(a, b, c)
format_row(a, b, c) == str(a) \o <<" ">> \o str(b) \o <<" ">> \o str(c) \o <<" ">>

\* a variant that writes the digital row of a difference for equal pixels too
equal_row_black(header) == format_row(0, 0, 0)

\* the row both streams get for a pair of equal pixels
equal_row(header) == format_row(header.max_color, header.max_color, header.max_color)

\* the analog row of a pair of different pixels
analog_row(pixel1, pixel2, header) ==
    LET diff == pixel_diff(pixel1, pixel2)
    IN  format_row(header.max_color - diff.red, header.max_color - diff.green,
                   header.max_color - diff.blue)

\* the digital row of a pair of different pixels: '0 0 0 '.format()
digital_row == <<"0", " ", "0", " ", "0", " ">>

\* a variant that divides by the height
differ_record_by_height(idx, pixel1, pixel2, header) ==
    format(PIXELS_DIFFER, <<PyFloorDiv(idx, header.height), PyMod(idx, header.height),
                            pixel1, pixel2>>)

\* the record printed to stderr for a pair of different pixels at position idx
differ_record(idx, pixel1, pixel2, header) ==
    format(PIXELS_DIFFER, <<PyFloorDiv(idx, header.width), PyMod(idx, header.width),
                            pixel1, pixel2>>)

\* a variant that stops one pair early
zip_len_one_short(pixels1, pixels2) ==
    IF Min(Len(pixels1), Len(pixels2)) = 0 THEN 0
    ELSE Min(Len(pixels1), Len(pixels2)) - 1

\* the number of pairs zip(pixels1, pixels2) yields
zip_len(pixels1, pixels2) == Min(Len(pixels1), Len(pixels2))

\* the status of sys.exit(diff): False is 0, True is 1
exit_status(diff) == IF diff THEN 1 ELSE 0

\* what main prints for an exception of get_image, None for one it does not catch
decode_error_message(outcome) ==
    IF outcome.raised = "P3InvalidHeaderError" THEN format(INVALID_P3_FORMAT, <<>>)
    ELSE IF outcome.raised \in {"MalformedPixelError", "PartialPixelError"}
         THEN outcome.value
         ELSE format("Traceback", <<outcome.raised>>)

(***************************************************************************)
(* The input texts of the runs.                                            *)
(***************************************************************************)
HeaderText(h) ==
    <<"P", "3", "\n">> \o str(h.width) \o <<" ">> \o str(h.height) \o <<"\n">>
        \o str(h.max_color) \o <<"\n">>

PixelText(p) ==
    str(p.red) \o <<" ">> \o str(p.green) \o <<" ">> \o str(p.blue) \o <<"\n">>

RECURSIVE PixelsText(_)
PixelsText(ps) ==
    IF Len(ps) = 0 THEN <<>> ELSE PixelText(Head(ps)) \o PixelsText(Tail(ps))

MainHeaders ==
    {Header(2, 1, 2), Header(1, 1, 2), Header(2, 2, 2), Header(2, 1, 1),
     Header(-2, 1, 2)}

MainPixels == {Pixel(0, 0, 0), Pixel(0, 1, 0), Pixel(2, 0, 1)}

PixelSeqs == UNION {[1..k -> MainPixels] : k \in 0..MaxPixels}

WellFormedTexts == {HeaderText(h) \o PixelsText(ps) : h \in MainHeaders, ps \in PixelSeqs}

BrokenTexts ==
    {<<"P", "6", "\n", "2", " ", "1", "\n", "2", "\n">>,
     HeaderText(Header(2, 1, 2)) \o <<"0", " ", "0", " ", "0", "\n", "1", " ", "1">>,
     HeaderText(Header(2, 1, 2)) \o <<"0", " ", "x", " ", "0">>,
     HeaderText(Header(0, 1, 2)) \o <<"0", " ", "0", " ", "0">>,
     HeaderText(Header(0, 1, 2))}

MainTexts == WellFormedTexts \cup BrokenTexts

\* the inputs of the decoder: every combination of header lines, without and
\* with one pixel; texts that end early; and pixel token sequences under
\* accepted headers, two tokens to a line
Lines1 ==
    {<<"P", "3">>,
     <<" ", "P", "3", " ">>,
     <<"P", " ", "3">>,
     <<"P", "6">>,
     <<>>}

Lines2 ==
    {<<"2", " ", "1">>,
     <<"1">>,
     <<"1", " ", "2", " ", "3">>,
     <<"x", " ", "1">>,
     <<"1", " ", "x">>,
     <<>>,
     <<" ">>,
     <<" ", "2", " ", "\t", " ", "1", " ">>,
     <<"0", " ", "1">>,
     <<"-", "1", " ", "1">>}

Lines3 ==
    {<<"1">>,
     <<>>,
     <<"x">>,
     <<"1", " ", "1">>,
     <<"-", "1">>,
     <<" ", "2", " ">>}

TruncatedTexts ==
    {<<>>,
     <<"P", "3">>,
     <<"P", "3", "\n", "2", " ", "1">>,
     <<"P", "3", "\n", "2", " ", "1", "\n", "1">>,
     <<"P", "3", "\n", "2", " ", "1", "\n", "1", "\n", "7", " ", "7", " ", "7">>}

DecodeTokens == {<<"-", "1", "0">>, <<"7", "x">>}

HeaderLinesTexts ==
    {a \o <<"\n">> \o b \o <<"\n">> \o c \o <<"\n">> \o body :
        a \in Lines1, b \in Lines2, c \in Lines3,
        body \in {<<>>, <<"7", " ", "7", " ", "7">>}}

DecodeHeaders == {Header(1, 1, 1), Header(2, 1, 1), Header(0, 1, 1), Header(-2, 1, 1)}

TokenSeqs == UNION {[1..k -> DecodeTokens] : k \in 0..MaxTokens}

RECURSIVE TokensText(_, _)
TokensText(toks, i) ==
    IF i > Len(toks) THEN <<>>
    ELSE toks[i] \o (IF i % 2 = 0 THEN <<"\n">> ELSE <<" ">>) \o TokensText(toks, i + 1)

PixelTokenTexts == {HeaderText(h) \o TokensText(toks, 1) : h \in DecodeHeaders, toks \in TokenSeqs}

DecodeTexts == HeaderLinesTexts \cup TruncatedTexts \cup PixelTokenTexts

HeaderFields == 0..MaxDim

HeaderSet == {Header(w, h, m) : w \in HeaderFields, h \in HeaderFields, m \in HeaderFields}

(***************************************************************************)
(* The state of a run of main.                                             *)
(***************************************************************************)
VARIABLES
    pc,           \* the position of main
    argv_len,     \* len(argv)
    infile1,      \* the text of the first input file, once opened
    infile2,      \* the text of the second input file, once opened
    image1,       \* the outcome of get_image(infile1)
    image2,       \* the outcome of get_image(infile2)
    out_digital,  \* the file diffimage_digital.ppm
    out_analog,   \* the file diffimage_analog.ppm
    stderr,       \* the messages printed to sys.stderr
    idx,          \* the position of the loop of process_pixels
    differ,       \* the flag of process_pixels
    status        \* the exit status, -1 while the program runs

vars ==
    <<pc, argv_len, infile1, infile2, image1, image2, out_digital, out_analog,
      stderr, idx, differ, status>>

Unset == [raised |-> "unset", value |-> <<>>]

Init ==
    /\ pc = "check_args"
    /\ argv_len \in {NUM_ARGS - 1, NUM_ARGS, NUM_ARGS + 1}
    /\ infile1 = <<>>
    /\ infile2 = <<>>
    /\ image1 = Unset
    /\ image2 = Unset
    /\ out_digital = NewFile
    /\ out_analog = NewFile
    /\ stderr = <<>>
    /\ idx = 0
    /\ differ = FALSE
    /\ status = -1

\* error(msg): print msg to stderr and exit with status 1; open files are
\* closed as the SystemExit leaves their with statement
error(msg) ==
    /\ stderr' = Append(stderr, msg)
    /\ status' = 1
    /\ pc' = "exited"
    /\ out_digital' = close(out_digital)
    /\ out_analog' = close(out_analog)

CheckArgs ==
    /\ pc = "check_args"
    /\ IF check_args(argv_len)
       THEN /\ pc' = "open_infile1"
            /\ UNCHANGED <<stderr, status, out_digital, out_analog>>
       ELSE error(format(USAGE, <<"ppmdiff.py">>))
    /\ UNCHANGED <<argv_len, infile1, infile2, image1, image2, idx, differ>>

OpenInfile1 ==
    /\ pc = "open_infile1"
    /\ \/ \E text \in MainTexts :
            /\ infile1' = text
            /\ pc' = "open_infile2"
            /\ UNCHANGED <<stderr, status, out_digital, out_analog>>
       \/ /\ error(format(IO_ERROR, <<"argv[1]", "strerror">>))
          /\ UNCHANGED infile1
    /\ UNCHANGED <<argv_len, infile2, image1, image2, idx, differ>>

OpenInfile2 ==
    /\ pc = "open_infile2"
    /\ \/ \E text \in MainTexts :
            /\ infile2' = text
            /\ pc' = "get_image1"
            /\ UNCHANGED <<stderr, status, out_digital, out_analog>>
       \/ /\ error(format(IO_ERROR, <<"argv[2]", "strerror">>))
          /\ UNCHANGED infile2
    /\ UNCHANGED <<argv_len, infile1, image1, image2, idx, differ>>

GetImage1 ==
    /\ pc = "get_image1"
    /\ image1' = get_image(infile1)
    /\ IF image1'.raised = ""
       THEN /\ pc' = "get_image2"
            /\ UNCHANGED <<stderr, status, out_digital, out_analog>>
       ELSE error(decode_error_message(image1'))
    /\ UNCHANGED <<argv_len, infile1, infile2, image2, idx, differ>>

GetImage2 ==
    /\ pc = "get_image2"
    /\ image2' = get_image(infile2)
    /\ IF image2'.raised = ""
       THEN /\ pc' = "compare_headers"
            /\ UNCHANGED <<stderr, status, out_digital, out_analog>>
       ELSE error(decode_error_message(image2'))
    /\ UNCHANGED <<argv_len, infile1, infile2, image1, idx, differ>>

CompareHeaders ==
    /\ pc = "compare_headers"
    /\ IF image1.value.header # image2.value.header
       THEN error(format(HEADER_MISMATCH,
                         <<header_match_error(image1.value.header, image2.value.header)>>))
       ELSE /\ pc' = "open_out_digital"
            /\ UNCHANGED <<stderr, status, out_digital, out_analog>>
    /\ UNCHANGED <<argv_len, infile1, infile2, image1, image2, idx, differ>>

OpenOutDigital ==
    /\ pc = "open_out_digital"
    /\ \/ /\ out_digital' = OpenedForWriting
          /\ pc' = "open_out_analog"
          /\ UNCHANGED <<stderr, status, out_analog>>
       \/ error(format(IO_ERROR, <<OUT_FILE_DIGITAL, "strerror">>))
    /\ UNCHANGED <<argv_len, infile1, infile2, image1, image2, idx, differ>>

OpenOutAnalog ==
    /\ pc = "open_out_analog"
    /\ \/ /\ out_analog' = OpenedForWriting
          /\ pc' = "generate_diffs"
          /\ UNCHANGED <<stderr, status, out_digital>>
       \/ error(format(IO_ERROR, <<OUT_FILE_ANALOG, "strerror">>))
    /\ UNCHANGED <<argv_len, infile1, infile2, image1, image2, idx, differ>>

\* generate_diffs up to the loop of process_pixels
GenerateDiffs ==
    /\ pc = "generate_diffs"
    /\ out_digital' = write_header(out_digital, image1.value.header)
    /\ out_analog' = write_header(out_analog, image1.value.header)
    /\ differ' = FALSE
    /\ idx' = 0
    /\ pc' = "process_pixels"
    /\ UNCHANGED <<argv_len, infile1, infile2, image1, image2, stderr, status>>

\* one iteration of the loop of process_pixels
ProcessPixel ==
    /\ pc = "process_pixels"
    /\ idx < zip_len(image1.value.pixels, image2.value.pixels)
    /\ LET pixel1 == image1.value.pixels[idx + 1]
           pixel2 == image2.value.pixels[idx + 1]
           header == image1.value.header
       IN  IF pixel1 = pixel2
           THEN /\ out_analog' = print(out_analog, equal_row(header))
                /\ out_digital' = print(out_digital, equal_row(header))
                /\ UNCHANGED <<stderr, differ>>
           ELSE /\ stderr' = Append(stderr, differ_record(idx, pixel1, pixel2, header))
                /\ out_analog' = print(out_analog, analog_row(pixel1, pixel2, header))
                /\ out_digital' = print(out_digital, digital_row)
                /\ differ' = TRUE
    /\ idx' = idx + 1
    /\ UNCHANGED <<pc, argv_len, infile1, infile2, image1, image2, status>>

\* process_pixels returns differ, the output files are closed, sys.exit(diff)
Exit ==
    /\ pc = "process_pixels"
    /\ idx >= zip_len(image1.value.pixels, image2.value.pixels)
    /\ out_digital' = close(out_digital)
    /\ out_analog' = close(out_analog)
    /\ status' = exit_status(differ)
    /\ pc' = "exited"
    /\ UNCHANGED <<argv_len, infile1, infile2, image1, image2, stderr, idx, differ>>

Next ==
    \/ CheckArgs
    \/ OpenInfile1
    \/ OpenInfile2
    \/ GetImage1
    \/ GetImage2
    \/ CompareHeaders
    \/ OpenOutDigital
    \/ OpenOutAnalog
    \/ GenerateDiffs
    \/ ProcessPixel
    \/ Exit

Spec == Init /\ [][Next]_vars

(***************************************************************************)
(* The decoder alone: get_image applied to one text.                       *)
(***************************************************************************)
InitDecode ==
    /\ pc = "get_image"
    /\ argv_len = NUM_ARGS
    /\ infile1 \in DecodeTexts
    /\ infile2 = <<>>
    /\ image1 = Unset
    /\ image2 = Unset
    /\ out_digital = NewFile
    /\ out_analog = NewFile
    /\ stderr = <<>>
    /\ idx = 0
    /\ differ = FALSE
    /\ status = -1

GetImage ==
    /\ pc = "get_image"
    /\ image1' = get_image(infile1)
    /\ pc' = "decoded"
    /\ UNCHANGED <<argv_len, infile1, infile2, image2, out_digital, out_analog,
                   stderr, idx, differ, status>>

SpecDecode == InitDecode /\ [][GetImage]_vars

(***************************************************************************)
(* header_match_error alone, applied to a pair of headers.                 *)
(***************************************************************************)
InitHeaderMatch ==
    /\ pc = "header_match_error"
    /\ argv_len = NUM_ARGS
    /\ infile1 = <<>>
    /\ infile2 = <<>>
    /\ \E h \in HeaderSet : image1 = Return(Image(h, <<>>))
    /\ \E h \in HeaderSet : image2 = Return(Image(h, <<>>))
    /\ out_digital = NewFile
    /\ out_analog = NewFile
    /\ stderr = <<>>
    /\ idx = 0
    /\ differ = FALSE
    /\ status = -1

HeaderMatchError ==
    /\ pc = "header_match_error"
    /\ stderr' = Append(stderr,
                        format(HEADER_MISMATCH,
                               <<header_match_error(image1.value.header,
                                                    image2.value.header)>>))
    /\ pc' = "reported"
    /\ UNCHANGED <<argv_len, infile1, infile2, image1, image2, out_digital,
                   out_analog, idx, differ, status>>

SpecHeaderMatch == InitHeaderMatch /\ [][HeaderMatchError]_vars

(***************************************************************************)
(* The properties.                                                         *)
(***************************************************************************)
\* the pixel rows of an output file: its lines after the three of the header
Rows(out) == SubSeq(out.lines, 4, Len(out.lines))

\* main is in the loop of process_pixels, or has left it through sys.exit(diff)
Processing ==
    \/ pc = "process_pixels"
    \/ pc = "exited" /\ out_analog.state = "closed"

Pixels1 == image1.value.pixels

Pixels2 == image2.value.pixels

SharedHeader == image1.value.header

Shorter == IF Len(Pixels1) <= Len(Pixels2) THEN Len(Pixels1) ELSE Len(Pixels2)

Distance(a, b) == IF a >= b THEN a - b ELSE b - a

Triple(a, b, c) == str(a) \o <<" ">> \o str(b) \o <<" ">> \o str(c) \o <<" ">>

\* (row, col) is the position of the 0-based index k in rows of width w
IsPosition(row, col, k, w) ==
    /\ row * w + col = k
    /\ IF w > 0 THEN 0 <= col /\ col < w ELSE w < col /\ col <= 0

\* C1: diffing an image's pixels against themselves finds no difference,
\* prints no diagnostic record, and writes to both streams only the row
\* "{max_color} {max_color} {max_color} ", one for every pixel.
C1_SelfDiffIsWhite ==
    (Processing /\ Pixels1 = Pixels2) =>
        /\ differ = FALSE
        /\ stderr = <<>>
        /\ \A k \in 1..Len(Rows(out_digital)) :
              Rows(out_digital)[k] =
                  Triple(SharedHeader.max_color, SharedHeader.max_color,
                         SharedHeader.max_color)
        /\ \A k \in 1..Len(Rows(out_analog)) :
              Rows(out_analog)[k] =
                  Triple(SharedHeader.max_color, SharedHeader.max_color,
                         SharedHeader.max_color)
        /\ pc = "exited" =>
              /\ Len(Rows(out_digital)) = Len(Pixels1)
              /\ Len(Rows(out_analog)) = Len(Pixels1)

C1_Witness ==
    /\ pc = "exited"
    /\ Processing
    /\ Pixels1 = Pixels2
    /\ Len(Pixels1) >= 2
    /\ Pixels1[1] # Pixels1[2]
    /\ Len(Rows(out_analog)) = Len(Pixels1)
    /\ status = 0

\* C2: when both inputs decode, their headers are equal and the outputs are
\* written, the exit status is 0 if the two pixel sequences are identical
\* and 1 if they differ anywhere, whatever their lengths.
C2_ExitStatusTellsDifference ==
    (pc = "exited" /\ Processing) =>
        status = (IF Pixels1 = Pixels2 THEN 0 ELSE 1)

\* C3: however main ends, either both output files are fully written (the
\* header and all pixel rows) or neither has been created, truncated or
\* written.
C3_BothOutputsOrNeither ==
    pc = "exited" =>
        \/ /\ out_digital.state = "untouched"
           /\ out_analog.state = "untouched"
        \/ /\ out_digital.state = "closed"
           /\ out_analog.state = "closed"
           /\ Len(out_digital.lines) = 3 + Shorter
           /\ Len(out_analog.lines) = 3 + Shorter

\* C4: get_image ends with an Image, InvalidHeaderFormat, PartialPixelAt or
\* MalformedPixelAt and nothing else, and a Header it returns has width > 0,
\* height > 0 and max_color >= 0.
C4_DecodeOutcomes ==
    pc = "decoded" =>
        /\ image1.raised \in
              {"", "P3InvalidHeaderError", "PartialPixelError", "MalformedPixelError"}
        /\ image1.raised = "" =>
              /\ image1.value.header.width > 0
              /\ image1.value.header.height > 0
              /\ image1.value.header.max_color >= 0

ReportedReason == stderr[1].args[1]

\* C5: header_match_error reports 'widths differ' whenever the widths differ,
\* otherwise 'heights differ' whenever the heights differ, otherwise 'color
\* max values differ' whenever the max_color values differ, and 'nothing
\* differs' only when all three fields are equal.
C5_MismatchPriority ==
    pc = "reported" =>
        LET h1 == image1.value.header
            h2 == image2.value.header
        IN  /\ h1.width # h2.width => ReportedReason = "widths differ"
            /\ (h1.width = h2.width /\ h1.height # h2.height) =>
                  ReportedReason = "heights differ"
            /\ (h1.width = h2.width /\ h1.height = h2.height
                    /\ h1.max_color # h2.max_color) =>
                  ReportedReason = "color max values differ"
            /\ ReportedReason = "nothing differs" <=>
                  (h1.width = h2.width /\ h1.height = h2.height
                      /\ h1.max_color = h2.max_color)

C5_Witness ==
    /\ pc = "reported"
    /\ image1.value.header.width # image2.value.header.width
    /\ image1.value.header.height # image2.value.header.height
    /\ image1.value.header.max_color # image2.value.header.max_color
    /\ ReportedReason = "widths differ"

IsInteger(s) == int(s).raised = ""

\* the pixel tokens of the decoded text and their groups of three, 0-based
PixelTokens == split(readlines(infile1))

GroupCount == (Len(PixelTokens) + 2) \div 3

GroupIsShort(g) == 3 * g + 3 > Len(PixelTokens)

GroupIsMalformed(g) ==
    /\ ~GroupIsShort(g)
    /\ \E i \in (3 * g + 1)..(3 * g + 3) : ~IsInteger(PixelTokens[i])

Offending == {g \in 0..(GroupCount - 1) : GroupIsShort(g) \/ GroupIsMalformed(g)}

FirstOffending == CHOOSE g \in Offending : \A o \in Offending : g <= o

\* C6: under an accepted header (of a width other than 0), decoding fails
\* with the error of the first offending group of three tokens: PartialPixel
\* when it has 1 or 2 tokens, MalformedPixel when one of its 3 tokens is no
\* integer, at row = idx // width, col = idx % width of the group's index;
\* an Image is returned only when no group offends.
C6_FirstOffendingGroup ==
    (/\ pc = "decoded"
     /\ _read_header(infile1).raised = ""
     /\ _read_header(infile1).value.width # 0) =>
        IF Offending = {}
        THEN /\ image1.raised = ""
             /\ Len(image1.value.pixels) = GroupCount
        ELSE /\ image1.raised =
                    (IF GroupIsShort(FirstOffending) THEN "PartialPixelError"
                     ELSE "MalformedPixelError")
             /\ image1.value.fmt =
                    (IF GroupIsShort(FirstOffending)
                     THEN "partial pixel at <row={}, col={}>"
                     ELSE "invalid pixel at <row={}, col={}>")
             /\ IsPosition(image1.value.args[1], image1.value.args[2],
                           FirstOffending, _read_header(infile1).value.width)

C6_Witness ==
    /\ pc = "decoded"
    /\ _read_header(infile1).raised = ""
    /\ _read_header(infile1).value.width = 2
    /\ Len(PixelTokens) = 9
    /\ FirstOffending = 2
    /\ ~IsInteger(PixelTokens[8])
    /\ image1.raised = "MalformedPixelError"
    /\ image1.value.args = <<1, 0>>

HeaderLine(n) ==
    IF n = 1 THEN strip(readline(infile1))
    ELSE IF n = 2 THEN strip(readline(AfterLine(infile1)))
    ELSE strip(readline(AfterLine(AfterLine(infile1))))

DimensionsOk ==
    /\ Len(split(HeaderLine(2))) = 2
    /\ IsInteger(split(HeaderLine(2))[1])
    /\ IsInteger(split(HeaderLine(2))[2])

HeaderIsInvalid ==
    \/ HeaderLine(1) # <<"P", "3">>
    \/ HeaderLine(2) = <<>>
    \/ HeaderLine(3) = <<>>
    \/ ~DimensionsOk
    \/ ~IsInteger(HeaderLine(3))

\* C7: decoding fails with InvalidHeaderFormat exactly when trimmed line 1 is
\* not "P3", trimmed line 2 or 3 is empty, line 2 does not split into exactly
\* two integer tokens, or line 3 is no single integer; in every other case
\* the header is accepted with (width, height) from line 2 and max_color from
\* line 3.
C7_InvalidHeaderExactly ==
    pc = "decoded" =>
        /\ image1.raised = "P3InvalidHeaderError" <=> HeaderIsInvalid
        /\ ~HeaderIsInvalid =>
              /\ _read_header(infile1).raised = ""
              /\ _read_header(infile1).value.width = int(split(HeaderLine(2))[1]).value
              /\ _read_header(infile1).value.height = int(split(HeaderLine(2))[2]).value
              /\ _read_header(infile1).value.max_color = int(HeaderLine(3)).value
              /\ image1.raised = "" => image1.value.header = _read_header(infile1).value

C7_Witness ==
    /\ pc = "decoded"
    /\ HeaderLine(1) = <<"P", "3">>
    /\ Len(split(HeaderLine(2))) = 1
    /\ IsInteger(HeaderLine(2))
    /\ IsInteger(HeaderLine(3))
    /\ image1.raised = "P3InvalidHeaderError"

\* C8: for every pair of different pixels process_pixels has processed, the
\* digital row is "0 0 0 " and the analog row is max_color minus the absolute
\* difference of each channel; both rows are the same for the swapped pair.
C8_DifferingPairRows ==
    Processing =>
        \A k \in 1..Len(Rows(out_digital)) :
            Pixels1[k] # Pixels2[k] =>
                /\ Rows(out_digital)[k] = <<"0", " ", "0", " ", "0", " ">>
                /\ Rows(out_analog)[k] =
                      Triple(SharedHeader.max_color - Distance(Pixels1[k].red, Pixels2[k].red),
                             SharedHeader.max_color - Distance(Pixels1[k].green, Pixels2[k].green),
                             SharedHeader.max_color - Distance(Pixels1[k].blue, Pixels2[k].blue))
                /\ analog_row(Pixels2[k], Pixels1[k], SharedHeader) = Rows(out_analog)[k]

C8_Witness ==
    /\ pc = "exited"
    /\ Processing
    /\ \E k \in 1..Len(Rows(out_digital)) :
          /\ Pixels1[k].red < Pixels2[k].red
          /\ Pixels1[k].green > Pixels2[k].green
          /\ Rows(out_digital)[k] = <<"0", " ", "0", " ", "0", " ">>
          /\ Rows(out_analog)[k] # Rows(out_digital)[k]

\* the positions processed so far at which the two pixels differ
DifferingSoFar == {k \in 0..(idx - 1) : Pixels1[k + 1] # Pixels2[k + 1]}

NthDiffering(n) ==
    CHOOSE k \in DifferingSoFar : Cardinality({x \in DifferingSoFar : x < k}) = n - 1

DiagnosticsMatch ==
    Processing =>
        /\ Len(stderr) = Cardinality(DifferingSoFar)
        /\ \A n \in 1..Len(stderr) :
              /\ stderr[n].fmt = "pixels at <row={}, col={}> differ.  {} <-- --> {}"
              /\ IsPosition(stderr[n].args[1], stderr[n].args[2], NthDiffering(n),
                            SharedHeader.width)
              /\ stderr[n].args[3] = Pixels1[NthDiffering(n) + 1]
              /\ stderr[n].args[4] = Pixels2[NthDiffering(n) + 1]
        /\ differ <=> Len(stderr) > 0

\* C9: process_pixels prints one diagnostic record for each position at which
\* the pixels differ and none for the others, in increasing order of position,
\* each with row = idx // width and col = idx % width; the flag is true
\* exactly when a record has been printed, and once true it stays true.
C9_OneRecordPerDifference == []DiagnosticsMatch /\ [][differ => differ']_vars

C9_Witness ==
    /\ pc = "exited"
    /\ Processing
    /\ Len(stderr) = 2
    /\ stderr[2].args[1] = 0
    /\ stderr[2].args[2] = 1
    /\ differ
    /\ status = 1

\* C10: after every step of process_pixels both streams hold as many pixel
\* rows as pairs have been processed, at the end min(len(pixels1),
\* len(pixels2)) of them; the pixels of the longer sequence beyond that give
\* no row and no record and leave the flag alone, and the count is not
\* checked against width * height.
C10_RowsPerPair ==
    Processing =>
        /\ Len(Rows(out_digital)) = idx
        /\ Len(Rows(out_analog)) = idx
        /\ idx <= Shorter
        /\ pc = "exited" =>
              /\ idx = Shorter
              /\ Len(stderr) <= Shorter
              /\ differ <=> \E k \in 1..Shorter : Pixels1[k] # Pixels2[k]
              /\ status = (IF differ THEN 1 ELSE 0)

C10_Witness ==
    /\ pc = "exited"
    /\ Processing
    /\ Len(Pixels1) > Len(Pixels2)
    /\ Len(Pixels2) >= 1
    /\ Pixels1[1] = Pixels2[1]
    /\ Len(Rows(out_analog)) = Len(Pixels2)
    /\ Len(Pixels2) # SharedHeader.width * SharedHeader.height
    /\ differ = FALSE
    /\ status = 0

=============================================================================
